---------------------------- MODULE Spec2Model ----------------------------
(***************************************************************************)
(* Model of the MultiTalk backend wrapper (src/cli.py, src/config.py).     *)
(*                                                                         *)
(* One invocation of main() is a process p: it creates its working         *)
(* directory, loads the job data, resolves the avatar, builds and writes   *)
(* the payload, checks the configuration, ensures the Kokoro symlink,      *)
(* plans the frame budget, runs the generator while keeping the last       *)
(* lines of its output, and removes the working directory.                 *)
(*                                                                         *)
(* Paths are sequences of path components below the repository directory.  *)
(* Text is a sequence of characters: -1 is the newline, 0 a blank, and a   *)
(* positive number a printable character.                                  *)
(***************************************************************************)
EXTENDS Integers, Sequences, FiniteSets

VARIABLES
    pc,             \* pc[p]: where invocation p is in main()
    job,            \* job[p]: job id (--job-id) and the job data (--data)
    config,         \* the values of config.py
    avatarDir,      \* what is on disk at config.AVATAR_DIR
    fs,             \* the paths that exist below the repository directory
    sel,            \* sel[p]: result of _select_avatar_assets
    payload,        \* payload[p]: the payload built for the generator
    err,            \* err[p]: the exception main() ends with ("none": none)
    errText,        \* errText[p]: "Last output" of the generator failure
    spawned,        \* spawned[p]: Popen has started the generator
    frame_num,      \* frame_num[p]
    max_frames_num, \* max_frames_num[p]
    command,        \* command[p]: the frame arguments of the command line
    stream,         \* stream[p]: what the generator prints
    nread,          \* nread[p]: lines read from the generator so far
    tail,           \* tail[p]: the tail buffer of _run_command_streaming
    rmAttempted,    \* rmAttempted[p]: shutil.rmtree(work_dir) was called
    rmFailed,       \* rmFailed[p]: that call raised (and was swallowed)
    writes,         \* writes[p]: paths p (or its generator) created or wrote
    deletes         \* deletes[p]: paths p deleted

vars == <<pc, job, config, avatarDir, fs, sel, payload, err, errText, spawned,
          frame_num, max_frames_num, command, stream, nread, tail,
          rmAttempted, rmFailed, writes, deletes>>

Procs == {1, 2}

-----------------------------------------------------------------------------
(* Bounds of the model *)

\* longest speech_text of the frame planner's specification
MaxLen == 160
\* longest speech_text of the specifications of main()
MaxSpeechMain == 1
\* most lines the generator prints in the specifications of main()
MaxLinesMain == 1
\* short outputs of the generator in the tail buffer's specification
SmallLines == 3
\* the generator prints up to TailMax + Over lines there
Over == 2

(* Constants of the program *)

CHARS_PER_SECOND == 15
FPS == 25
TailMax == 200
FrameShort == 33
FrameLong == 81
StreamingUnknown == 1000

-----------------------------------------------------------------------------
(* Helpers *)

Min(a, b) == IF a < b THEN a ELSE b
Max(a, b) == IF a > b THEN a ELSE b

RECURSIVE Pow2(_)
Pow2(k) == IF k <= 0 THEN 1 ELSE 2 * Pow2(k - 1)

IsPrefix(a, b) == Len(a) <= Len(b) /\ SubSeq(b, 1, Len(a)) = a

\* the non-empty prefixes of a path: what os.makedirs(path) makes exist
Prefixes(path) == {SubSeq(path, 1, k) : k \in 1..Len(path)}

\* the paths of a set at or below a directory: what shutil.rmtree removes
Under(dir, paths) == {x \in paths : IsPrefix(dir, x)}


-----------------------------------------------------------------------------
(* Job data: the JSON document of --data, as the fields main() reads *)

\* speech_text: absent, a string of len characters, or a non-string value
\* that Python takes for true (a number, a list)
NoSpeech == [kind |-> "missing", len |-> 0]
Str(n) == [kind |-> "str", len |-> n]
NonStr == [kind |-> "nonstr", len |-> 0]

\* Python's truth value of data.get("speech_text")
Truthy(s) == s.kind = "nonstr" \/ (s.kind = "str" /\ s.len > 0)

JobData(speeches, modes, urls, voices, explicit) ==
    [projectAvatar : urls,
     speech_text : speeches,
     mode : modes,
     preferredVoice : voices,
     tts_human1 : voices,
     avatar_path : explicit,
     kokoro_voice : explicit,
     video_prompt : explicit]

-----------------------------------------------------------------------------
(* _estimate_speech_duration_seconds and the frame budget of main() *)

\* the duration as the fraction num / den, or none
NoDuration == [none |-> TRUE, num |-> 0, den |-> 1]

EstimateSpeechDuration(s) ==
    IF ~Truthy(s) \/ s.kind # "str"
    THEN NoDuration
    ELSE [none |-> FALSE, num |-> s.len, den |-> CHARS_PER_SECOND]

\* floor(log2(num / den)), for 2^-6 <= num / den < 2^13
FloorLog2(num, den) ==
    CHOOSE e \in -6..12 :
        IF e >= 0
        THEN Pow2(e) * den <= num /\ num < Pow2(e + 1) * den
        ELSE den <= num * Pow2(-e) /\ num * Pow2(-e - 1) < den

\* a 4-bit pattern rotated left by k bits, k in 0..3
RotL4(r, k) == ((r * Pow2(k)) % 16) + ((r * Pow2(k)) \div 16)

(* int(video_duration_seconds * FPS) in IEEE binary64, for the duration     *)
(* d = L / 15.0 that EstimateSpeechDuration returns and FPS = 25.0.         *)
(* The binary expansion of L / 15 repeats the four bits of L % 15 after the *)
(* point, so the double nearest to it is known: with e = floor(log2(L/15)), *)
(* the bits cut off after the 53rd significant one are the pattern rotated  *)
(* by (52 - e) % 4, worth rot / 15 of a unit in the last place, and the     *)
(* quotient was rounded down when rot < 8.  The product with 25 is then     *)
(* 25 * rot / 15 such units below 25 * L / 15, and a unit in the last place *)
(* of the product is 2^(ev - e) of them.  When 25 * L / 15 is an integer v  *)
(* and the product lies more than half a unit below v, it rounds to the     *)
(* double just below v and int() gives v - 1; in every other case int()     *)
(* gives floor(25 * L / 15).                                                *)
FramesNeeded(d) ==
    LET exact == (d.num * FPS) \div d.den
        r == d.num % d.den
        e == FloorLog2(d.num, d.den)
        rot == RotL4(r, (52 - e) % 4)
        ev == FloorLog2(exact, 1)
    IN  IF (d.num * FPS) % d.den = 0 /\ r # 0 /\ rot < 8
           /\ 2 * FPS * rot > d.den * Pow2(ev - e)
        THEN exact - 1
        ELSE exact

\* data.get("mode", "streaming")
ModeOf(data) == IF data.mode = "absent" THEN "streaming" ELSE data.mode

\* FrameNum with the short clip's length as the threshold: 33 / FPS seconds
FrameNumShortThreshold(d) ==
    IF ~d.none /\ d.num * FPS < FrameShort * d.den
    THEN FrameShort
    ELSE FrameLong

\* FrameNum with 32 for the short clip: a frame count that is not 4n + 1
FrameNumNot4n1(d) ==
    IF ~d.none /\ d.num * FPS < FrameLong * d.den
    THEN FrameShort - 1
    ELSE FrameLong

FrameNum(d) ==
    IF ~d.none /\ d.num * FPS < FrameLong * d.den
    THEN FrameShort
    ELSE FrameLong

RoundUp4n1(m) ==
    LET remainder == (m - 1) % 4
    IN  IF remainder # 0 THEN m + (4 - remainder) ELSE m

MaxFramesNum(mode, d, fn) ==
    IF mode = "clip"
    THEN fn
    ELSE IF ~d.none
         THEN RoundUp4n1(Max(fn, FramesNeeded(d)))
         ELSE StreamingUnknown

\* the frame arguments of the command line: --max_frames_num only in
\* streaming mode
FrameArgs(mode, fn, mx) ==
    [frame_num |-> fn,
     has_max |-> (mode = "streaming"),
     max_frames_num |-> IF mode = "streaming" THEN mx ELSE 0]

NoFrameArgs == [frame_num |-> 0, has_max |-> FALSE, max_frames_num |-> 0]

-----------------------------------------------------------------------------
(* _select_avatar_assets *)

\* the characters of the file names, in the order of their code points
Alphabet ==
    <<".", "B", "J", "N", "O", "S",
      "a", "b", "c", "d", "e", "g", "j", "n", "o", "p", "s", "t", "w", "x">>

\* the rank of a character among them
Ord(c) == CHOOSE i \in 1..Len(Alphabet) : Alphabet[i] = c

\* str.lower() on one character
LowerChar(c) ==
    CASE c = "J" -> "j"
      [] c = "N" -> "n"
      [] c = "O" -> "o"
      [] c = "S" -> "s"
      [] c = "B" -> "b"
      [] OTHER -> c

Lower(name) == [i \in 1..Len(name) |-> LowerChar(name[i])]

EndsWith(name, suffix) ==
    /\ Len(suffix) <= Len(name)
    /\ SubSeq(name, Len(name) - Len(suffix) + 1, Len(name)) = suffix

\* the order of Python's string comparison (by code point)
LexLess(a, b) ==
    \E k \in 1..(Min(Len(a), Len(b)) + 1) :
        /\ \A j \in 1..(k - 1) : a[j] = b[j]
        /\ k <= Len(b)
        /\ (k > Len(a) \/ Ord(a[k]) < Ord(b[k]))

JsonExt == <<".", "j", "s", "o", "n">>
ImageExts ==
    {<<".", "p", "n", "g">>, <<".", "j", "p", "g">>,
     <<".", "j", "p", "e", "g">>, <<".", "w", "e", "b", "p">>}

IsJsonName(lower) == EndsWith(lower, JsonExt)
IsImageName(lower) == \E x \in ImageExts : EndsWith(lower, x)

\* SortedNames without the sort: the names in descending order
RECURSIVE DescendingNames(_)
DescendingNames(names) ==
    IF names = {}
    THEN <<>>
    ELSE LET last == CHOOSE n \in names :
                         \A m \in names \ {n} : LexLess(m, n)
         IN  <<last>> \o DescendingNames(names \ {last})

\* sorted(os.listdir(avatar_dir))
RECURSIVE SortedNames(_)
SortedNames(names) ==
    IF names = {}
    THEN <<>>
    ELSE LET first == CHOOSE n \in names :
                          \A m \in names \ {n} : LexLess(n, m)
         IN  <<first>> \o SortedNames(names \ {first})

\* the loop over the sorted entries, from entry i on
RECURSIVE ScanEntries(_, _, _, _, _)
ScanEntries(entries, order, i, json, image) ==
    IF i > Len(order)
    THEN [json |-> json, image |-> image]
    ELSE LET name == order[i]
             isdir == \E x \in entries : x.name = name /\ x.isdir
             lower == Lower(name)
         IN  IF isdir
             THEN ScanEntries(entries, order, i + 1, json, image)
             ELSE IF IsJsonName(lower) /\ json = <<>>
             THEN ScanEntries(entries, order, i + 1, name, image)
             ELSE IF IsImageName(lower) /\ image = <<>>
             THEN ScanEntries(entries, order, i + 1, json, name)
             ELSE ScanEntries(entries, order, i + 1, json, image)

NoSelection == [err |-> "none", json |-> <<>>, image |-> <<>>]

SelectAvatarAssets(dir) ==
    IF dir.kind # "dir"
    THEN [err |-> "avatar_dir_not_found", json |-> <<>>, image |-> <<>>]
    ELSE LET order == SortedNames({x.name : x \in dir.entries})
             got == ScanEntries(dir.entries, order, 1, <<>>, <<>>)
         IN  IF got.json = <<>> \/ got.image = <<>>
             THEN [err |-> "avatar_files_missing", json |-> <<>>, image |-> <<>>]
             ELSE [err |-> "none", json |-> got.json, image |-> got.image]

-----------------------------------------------------------------------------
(* _resolve_voice_path, _build_input_from_template, _build_input_payload *)

NoPayload ==
    [cond_image |-> [from |-> "none", name |-> <<>>],
     text |-> NoSpeech,
     human1_voice |-> "none"]

\* SpeechMissing as "speech_text is None": an empty string passes
SpeechAbsent(data) == data.speech_text.kind = "missing"

\* "if not speech_text": the check of both builders
SpeechMissing(data) == ~Truthy(data.speech_text)

\* the voice the path is resolved from
ResolveVoicePath(data) ==
    IF ~data.preferredVoice THEN "config.TTS_VOICE" ELSE "preferredVoice"

BuildInputFromTemplate(data, templateOk) ==
    IF ~templateOk
    THEN [err |-> "json_unreadable", payload |-> NoPayload]
    ELSE IF SpeechMissing(data)
    THEN [err |-> "speech_text_required", payload |-> NoPayload]
    ELSE [err |-> "none",
          payload |-> [cond_image |-> [from |-> "downloaded", name |-> <<>>],
                       text |-> data.speech_text,
                       human1_voice |-> ResolveVoicePath(data)]]

\* human1_voice of the merged tts_audio block
MergedVoice(data) ==
    IF data.tts_human1
    THEN "tts_audio.human1_voice"
    ELSE IF data.preferredVoice
    THEN ResolveVoicePath(data)
    ELSE "config.TTS_VOICE"

\* MergedImage that prefers the job's avatar_path
MergedImageFromJob(data, selected) ==
    IF data.avatar_path
    THEN [from |-> "avatar_path", name |-> <<>>]
    ELSE [from |-> "AVATAR_DIR", name |-> selected.image]

\* cond_image of the directory-merge strategy
MergedImage(data, selected) == [from |-> "AVATAR_DIR", name |-> selected.image]

BuildInputPayload(data, selected, jsonOk) ==
    IF ~jsonOk
    THEN [err |-> "json_unreadable", payload |-> NoPayload]
    ELSE IF SpeechMissing(data)
    THEN [err |-> "speech_text_required", payload |-> NoPayload]
    ELSE [err |-> "none",
          payload |-> [cond_image |-> MergedImage(data, selected),
                       text |-> data.speech_text,
                       human1_voice |-> MergedVoice(data)]]

-----------------------------------------------------------------------------
(* The generator's output and the tail buffer of _run_command_streaming *)

IsSpace(c) == c <= 0

\* line i of a stream: its kind follows the stream's pattern of three
LineBody(kind, i) ==
    CASE kind = "plain" -> <<i>>
      [] kind = "blank" -> <<>>
      [] kind = "padded" -> <<0, i, 0>>

StreamLine(s, i) == LineBody(s.pat[(i % 3) + 1], i) \o <<-1>>

LineKinds == {"plain", "blank", "padded"}
Streams(counts, kinds) == [n : counts, pat : [1..3 -> kinds]]
NoStream == [n |-> 0, pat |-> [i \in 1..3 |-> "plain"]]

\* TailAppend with tail.pop() for tail.pop(0): the newest line is dropped
TailAppendDropNewest(t, line) ==
    LET longer == Append(t, line)
    IN  IF Len(longer) > TailMax THEN SubSeq(longer, 1, TailMax) ELSE longer

\* tail.append(line); if len(tail) > 200: tail.pop(0)
TailAppend(t, line) ==
    LET longer == Append(t, line)
    IN  IF Len(longer) > TailMax THEN Tail(longer) ELSE longer

\* "".join(lines[lo..hi])
RECURSIVE JoinRange(_, _, _)
JoinRange(lines, lo, hi) ==
    IF lo > hi THEN <<>>
    ELSE IF lo = hi THEN lines[lo]
    ELSE LET mid == (lo + hi) \div 2
         IN  JoinRange(lines, lo, mid) \o JoinRange(lines, mid + 1, hi)

Join(lines) == JoinRange(lines, 1, Len(lines))

\* str.strip(): the text without its leading and trailing white space
Strip(text) ==
    IF \A i \in 1..Len(text) : IsSpace(text[i])
    THEN <<>>
    ELSE LET first == CHOOSE i \in 1..Len(text) :
                          /\ ~IsSpace(text[i])
                          /\ \A j \in 1..(i - 1) : IsSpace(text[j])
             last == CHOOSE i \in 1..Len(text) :
                          /\ ~IsSpace(text[i])
                          /\ \A j \in (i + 1)..Len(text) : IsSpace(text[j])
         IN  SubSeq(text, first, last)

\* the text of the RuntimeError raised on a nonzero exit code
TailText(t) == Strip(Join(t))

-----------------------------------------------------------------------------
(* Paths of main() *)

\* WorkDir that is not keyed by the job id
SharedWorkDir(p) == <<"backend_runs">>

\* work_dir = repo_dir/backend_runs/<job id>
WorkDir(p) == <<"backend_runs">> \o job[p].id

\* uuid.uuid4().hex + ".json": a fresh name for each invocation
UuidName(p) == IF p = 1 THEN "uuid-a.json" ELSE "uuid-b.json"

InputJsonPath(p) == WorkDir(p) \o <<UuidName(p)>>
AudioSaveDir(p) == WorkDir(p) \o <<"audio">>
AvatarDownloadDir(p) == WorkDir(p) \o <<"avatar">>
\* avatar<ext>: the extension (from the URL, the Content-Type or .png) plays no
\* part in what main() does with the file
AvatarFile(p) == AvatarDownloadDir(p) \o <<"avatar.img">>

WeightsDir == <<"weights">>
KokoroLink == <<"weights", "Kokoro-82M">>

\* where main() goes when a step before the try statement raises: the
\* exception leaves main(), the finally clause is not on its way
AfterSetupError == "done"

\* AfterRun without the finally clause: cleanup only after a clean exit
AfterRunNoFinally(failed) == IF failed THEN "done" ELSE "cleanup"

\* where main() goes when _run_command_streaming returns or raises: the
\* finally clause runs on both ways
AfterRun(failed) == "cleanup"

-----------------------------------------------------------------------------
(* The steps of main() *)

\* os.makedirs(work_dir, exist_ok=True)
MakeWorkDir(p) ==
    /\ pc[p] = "start"
    /\ fs' = fs \cup Prefixes(WorkDir(p))
    /\ writes' = [writes EXCEPT ![p] = @ \cup (Prefixes(WorkDir(p)) \ fs)]
    /\ pc' = [pc EXCEPT ![p] = "load"]
    /\ UNCHANGED <<job, config, avatarDir, sel, payload, err, errText, spawned,
                   frame_num, max_frames_num, command, stream, nread, tail,
                   rmAttempted, rmFailed, deletes>>

\* data = _load_json(args.data)
LoadData(p) ==
    /\ pc[p] = "load"
    /\ \E readable \in BOOLEAN :
        /\ pc' = [pc EXCEPT ![p] = IF readable THEN "avatar" ELSE AfterSetupError]
        /\ err' = [err EXCEPT ![p] = IF readable THEN "none" ELSE "json_unreadable"]
    /\ UNCHANGED <<job, config, avatarDir, fs, sel, payload, errText, spawned,
                   frame_num, max_frames_num, command, stream, nread, tail,
                   rmAttempted, rmFailed, writes, deletes>>

\* _download_avatar_from_url(project_avatar_url, work_dir/avatar)
DownloadAvatar(p) ==
    /\ pc[p] = "avatar"
    /\ job[p].data.projectAvatar
    /\ \E fetched \in BOOLEAN :
        LET made == Prefixes(AvatarDownloadDir(p))
            new == IF fetched THEN made \cup {AvatarFile(p)} ELSE made
        IN  /\ fs' = fs \cup new
            /\ writes' = [writes EXCEPT ![p] = @ \cup (new \ fs) \cup
                              (IF fetched THEN {AvatarFile(p)} ELSE {})]
            /\ pc' = [pc EXCEPT ![p] =
                          IF fetched THEN "template" ELSE AfterSetupError]
            /\ err' = [err EXCEPT ![p] =
                          IF fetched THEN "none" ELSE "download_failed"]
    /\ UNCHANGED <<job, config, avatarDir, sel, payload, errText, spawned,
                   frame_num, max_frames_num, command, stream, nread, tail,
                   rmAttempted, rmFailed, deletes>>

\* payload = _build_input_from_template(...)
BuildFromTemplate(p) ==
    /\ pc[p] = "template"
    /\ \E templateOk \in BOOLEAN :
        LET r == BuildInputFromTemplate(job[p].data, templateOk)
        IN  /\ payload' = [payload EXCEPT ![p] = r.payload]
            /\ err' = [err EXCEPT ![p] = r.err]
            /\ pc' = [pc EXCEPT ![p] =
                          IF r.err = "none" THEN "write" ELSE AfterSetupError]
    /\ UNCHANGED <<job, config, avatarDir, fs, sel, errText, spawned,
                   frame_num, max_frames_num, command, stream, nread, tail,
                   rmAttempted, rmFailed, writes, deletes>>

\* avatar_json, avatar_image = _select_avatar_assets(config.AVATAR_DIR)
SelectAssets(p) ==
    /\ pc[p] = "avatar"
    /\ ~job[p].data.projectAvatar
    /\ LET r == SelectAvatarAssets(avatarDir)
       IN  /\ sel' = [sel EXCEPT ![p] = r]
           /\ err' = [err EXCEPT ![p] = r.err]
           /\ pc' = [pc EXCEPT ![p] =
                         IF r.err = "none" THEN "merge" ELSE AfterSetupError]
    /\ UNCHANGED <<job, config, avatarDir, fs, payload, errText, spawned,
                   frame_num, max_frames_num, command, stream, nread, tail,
                   rmAttempted, rmFailed, writes, deletes>>

\* payload = _build_input_payload(...)
BuildPayload(p) ==
    /\ pc[p] = "merge"
    /\ \E jsonOk \in BOOLEAN :
        LET r == BuildInputPayload(job[p].data, sel[p], jsonOk)
        IN  /\ payload' = [payload EXCEPT ![p] = r.payload]
            /\ err' = [err EXCEPT ![p] = r.err]
            /\ pc' = [pc EXCEPT ![p] =
                          IF r.err = "none" THEN "write" ELSE AfterSetupError]
    /\ UNCHANGED <<job, config, avatarDir, fs, sel, errText, spawned,
                   frame_num, max_frames_num, command, stream, nread, tail,
                   rmAttempted, rmFailed, writes, deletes>>

\* _write_json(input_json_path, payload): open() raises OSError when the
\* working directory is no longer there
WriteJson(p) ==
    /\ pc[p] = "write"
    /\ LET there == WorkDir(p) \in fs
       IN  /\ fs' = IF there THEN fs \cup {InputJsonPath(p)} ELSE fs
           /\ writes' = [writes EXCEPT ![p] =
                             IF there THEN @ \cup {InputJsonPath(p)} ELSE @]
           /\ pc' = [pc EXCEPT ![p] = IF there THEN "config" ELSE AfterSetupError]
           /\ err' = [err EXCEPT ![p] = IF there THEN "none" ELSE "os_error"]
    /\ UNCHANGED <<job, config, avatarDir, sel, payload, errText, spawned,
                   frame_num, max_frames_num, command, stream, nread, tail,
                   rmAttempted, rmFailed, deletes>>

\* if not ckpt_dir or not wav2vec_dir: raise RuntimeError
CheckConfig(p) ==
    /\ pc[p] = "config"
    /\ pc' = [pc EXCEPT ![p] = IF config.dirs_set THEN "kokoro" ELSE AfterSetupError]
    /\ err' = [err EXCEPT ![p] = IF config.dirs_set THEN "none" ELSE "config_missing"]
    /\ UNCHANGED <<job, config, avatarDir, fs, sel, payload, errText, spawned,
                   frame_num, max_frames_num, command, stream, nread, tail,
                   rmAttempted, rmFailed, writes, deletes>>

\* _ensure_kokoro_weights, up to os.path.exists(link_path): creates the
\* weights directory, and goes on to the symlink when nothing is at link_path
EnsureKokoroWeights(p) ==
    /\ pc[p] = "kokoro"
    /\ fs' = IF config.kokoro_set THEN fs \cup {WeightsDir} ELSE fs
    /\ writes' = [writes EXCEPT ![p] =
                      IF config.kokoro_set THEN @ \cup ({WeightsDir} \ fs) ELSE @]
    /\ pc' = [pc EXCEPT ![p] =
                  IF config.kokoro_set /\ KokoroLink \notin fs
                  THEN "symlink" ELSE "plan"]
    /\ UNCHANGED <<job, config, avatarDir, sel, payload, err, errText, spawned,
                   frame_num, max_frames_num, command, stream, nread, tail,
                   rmAttempted, rmFailed, deletes>>

\* os.symlink(kokoro_dir, link_path), its exception swallowed
SymlinkKokoro(p) ==
    /\ pc[p] = "symlink"
    /\ \E permitted \in BOOLEAN :
        LET made == permitted /\ KokoroLink \notin fs
        IN  /\ fs' = IF made THEN fs \cup {KokoroLink} ELSE fs
            /\ writes' = [writes EXCEPT ![p] =
                              IF made THEN @ \cup {KokoroLink} ELSE @]
    /\ pc' = [pc EXCEPT ![p] = "plan"]
    /\ UNCHANGED <<job, config, avatarDir, sel, payload, err, errText, spawned,
                   frame_num, max_frames_num, command, stream, nread, tail,
                   rmAttempted, rmFailed, deletes>>

\* the frame budget and the command line
Plan(p) ==
    /\ pc[p] = "plan"
    /\ LET speech == job[p].data.speech_text
           d == IF Truthy(speech) THEN EstimateSpeechDuration(speech)
                ELSE NoDuration
           mode == ModeOf(job[p].data)
           fn == FrameNum(d)
           mx == MaxFramesNum(mode, d, fn)
       IN  /\ frame_num' = [frame_num EXCEPT ![p] = fn]
           /\ max_frames_num' = [max_frames_num EXCEPT ![p] = mx]
           /\ command' = [command EXCEPT ![p] = FrameArgs(mode, fn, mx)]
    /\ pc' = [pc EXCEPT ![p] = "spawn"]
    /\ UNCHANGED <<job, config, avatarDir, fs, sel, payload, err, errText,
                   spawned, stream, nread, tail, rmAttempted, rmFailed,
                   writes, deletes>>

\* the streams the generator prints in the specifications of main()
MainStreams == Streams(0..MaxLinesMain, {"plain"})

\* subprocess.Popen(...), inside the try statement
Spawn(p) ==
    /\ pc[p] = "spawn"
    /\ \E started \in BOOLEAN, s \in MainStreams :
        /\ spawned' = [spawned EXCEPT ![p] = started]
        /\ stream' = [stream EXCEPT ![p] = IF started THEN s ELSE NoStream]
        /\ pc' = [pc EXCEPT ![p] = IF started THEN "stream" ELSE AfterRun(TRUE)]
        /\ err' = [err EXCEPT ![p] = IF started THEN "none" ELSE "os_error"]
    /\ UNCHANGED <<job, config, avatarDir, fs, sel, payload, errText,
                   frame_num, max_frames_num, command, nread, tail,
                   rmAttempted, rmFailed, writes, deletes>>

\* one turn of "for line in proc.stdout"
ReadLine(p) ==
    /\ pc[p] = "stream"
    /\ nread[p] < stream[p].n
    /\ tail' = [tail EXCEPT ![p] = TailAppend(@, StreamLine(stream[p], nread[p] + 1))]
    /\ nread' = [nread EXCEPT ![p] = @ + 1]
    /\ UNCHANGED <<pc, job, config, avatarDir, fs, sel, payload, err, errText,
                   spawned, frame_num, max_frames_num, command, stream,
                   rmAttempted, rmFailed, writes, deletes>>

\* the running generator creates --audio_save_dir
GeneratorWritesAudio(p) ==
    /\ pc[p] = "stream"
    /\ AudioSaveDir(p) \notin fs
    /\ fs' = fs \cup Prefixes(AudioSaveDir(p))
    /\ writes' = [writes EXCEPT ![p] = @ \cup (Prefixes(AudioSaveDir(p)) \ fs)]
    /\ UNCHANGED <<pc, job, config, avatarDir, sel, payload, err, errText,
                   spawned, frame_num, max_frames_num, command, stream, nread,
                   tail, rmAttempted, rmFailed, deletes>>

\* rc = proc.wait(); a nonzero rc raises RuntimeError with the tail's text
Wait(p) ==
    /\ pc[p] = "stream"
    /\ nread[p] = stream[p].n
    /\ \E rc \in {0, 1} :
        /\ err' = [err EXCEPT ![p] = IF rc # 0 THEN "generation_failed" ELSE "none"]
        /\ errText' = [errText EXCEPT ![p] = IF rc # 0 THEN TailText(tail[p]) ELSE <<>>]
        /\ pc' = [pc EXCEPT ![p] = AfterRun(rc # 0)]
    /\ UNCHANGED <<job, config, avatarDir, fs, sel, payload, spawned,
                   frame_num, max_frames_num, command, stream, nread, tail,
                   rmAttempted, rmFailed, writes, deletes>>

\* finally: shutil.rmtree(work_dir), its exception swallowed
Cleanup(p) ==
    /\ pc[p] = "cleanup"
    /\ \E raises \in BOOLEAN :
        LET removed == IF raises \/ WorkDir(p) \notin fs
                       THEN {} ELSE Under(WorkDir(p), fs)
        IN  /\ fs' = fs \ removed
            /\ deletes' = [deletes EXCEPT ![p] = @ \cup removed]
            /\ rmFailed' = [rmFailed EXCEPT ![p] = raises \/ WorkDir(p) \notin fs]
    /\ rmAttempted' = [rmAttempted EXCEPT ![p] = TRUE]
    /\ pc' = [pc EXCEPT ![p] = "done"]
    /\ UNCHANGED <<job, config, avatarDir, sel, payload, err, errText, spawned,
                   frame_num, max_frames_num, command, stream, nread, tail,
                   writes>>

Step(p) ==
    \/ MakeWorkDir(p)
    \/ LoadData(p)
    \/ DownloadAvatar(p)
    \/ BuildFromTemplate(p)
    \/ SelectAssets(p)
    \/ BuildPayload(p)
    \/ WriteJson(p)
    \/ CheckConfig(p)
    \/ EnsureKokoroWeights(p)
    \/ SymlinkKokoro(p)
    \/ Plan(p)
    \/ Spawn(p)
    \/ ReadLine(p)
    \/ GeneratorWritesAudio(p)
    \/ Wait(p)
    \/ Cleanup(p)

Next == \E p \in Procs : Step(p)

-----------------------------------------------------------------------------
(* Initial states *)

File(name) == [name |-> name, isdir |-> FALSE]
Dir(name) == [name |-> name, isdir |-> TRUE]

\* b.json, a.JSON, aa.json/ (a directory), d.png, c.jpeg, B.webp, x.txt
Universe ==
    {File(<<"b", ".", "j", "s", "o", "n">>),
     File(<<"a", ".", "J", "S", "O", "N">>),
     Dir(<<"a", "a", ".", "j", "s", "o", "n">>),
     File(<<"d", ".", "p", "n", "g">>),
     File(<<"c", ".", "j", "p", "e", "g">>),
     File(<<"B", ".", "w", "e", "b", "p">>),
     File(<<"x", ".", "t", "x", "t">>)}

MissingDir == [kind |-> "missing", entries |-> {}]
NotADir == [kind |-> "file", entries |-> {}]
GoodDir ==
    [kind |-> "dir",
     entries |-> {File(<<"b", ".", "j", "s", "o", "n">>),
                  File(<<"d", ".", "p", "n", "g">>)}]
NoImageDir ==
    [kind |-> "dir", entries |-> {File(<<"b", ".", "j", "s", "o", "n">>)}]

AllDirs ==
    {MissingDir, NotADir} \cup {[kind |-> "dir", entries |-> S] : S \in SUBSET Universe}
MainDirs == {MissingDir, GoodDir, NoImageDir}

Configs ==
    {[dirs_set |-> TRUE, kokoro_set |-> TRUE],
     [dirs_set |-> FALSE, kokoro_set |-> TRUE],
     [dirs_set |-> TRUE, kokoro_set |-> FALSE]}
GoodConfig == [dirs_set |-> TRUE, kokoro_set |-> TRUE]

\* the repository directory before a run: fresh, or with the run root, the
\* weights directory and the Kokoro weights in place
Installed == {<<"backend_runs">>, WeightsDir, KokoroLink}
FsChoices == {{}, Installed}

MainSpeeches == {NoSpeech, NonStr} \cup {Str(n) : n \in 0..MaxSpeechMain}
PlanSpeeches == {NonStr} \cup {Str(n) : n \in 1..MaxLen}

MainData == JobData(MainSpeeches, {"absent", "clip"}, BOOLEAN, BOOLEAN, BOOLEAN)

\* a job of the directory-merge strategy with a one-character text
BaseData ==
    [projectAvatar |-> FALSE, speech_text |-> Str(1), mode |-> "absent",
     preferredVoice |-> FALSE, tts_human1 |-> FALSE, avatar_path |-> FALSE,
     kokoro_voice |-> FALSE, video_prompt |-> FALSE]

Idle == [id |-> <<"idle">>, data |-> BaseData]

\* the locals of an invocation that has not run yet
Fresh ==
    /\ sel = [p \in Procs |-> NoSelection]
    /\ payload = [p \in Procs |-> NoPayload]
    /\ err = [p \in Procs |-> "none"]
    /\ errText = [p \in Procs |-> <<>>]
    /\ spawned = [p \in Procs |-> FALSE]
    /\ frame_num = [p \in Procs |-> 0]
    /\ max_frames_num = [p \in Procs |-> 0]
    /\ command = [p \in Procs |-> NoFrameArgs]
    /\ stream = [p \in Procs |-> NoStream]
    /\ nread = [p \in Procs |-> 0]
    /\ tail = [p \in Procs |-> <<>>]
    /\ rmAttempted = [p \in Procs |-> FALSE]
    /\ rmFailed = [p \in Procs |-> FALSE]
    /\ writes = [p \in Procs |-> {}]
    /\ deletes = [p \in Procs |-> {}]

\* invocation 1 at a later step of a run of the directory-merge strategy in
\* which every earlier step succeeded: before _select_avatar_assets
\* ("avatar"), before the frame budget ("plan"), or reading the generator's
\* output s ("stream")
Running(where, j, dir, s) ==
    LET built == where # "avatar"
        running == where = "stream"
        picked == IF built THEN SelectAvatarAssets(dir) ELSE NoSelection
        wd == <<"backend_runs">> \o j.id
        made == {wd} \cup (IF built THEN {wd \o <<UuidName(1)>>} ELSE {})
        d == EstimateSpeechDuration(j.data.speech_text)
        fn == FrameNum(d)
        mx == MaxFramesNum(ModeOf(j.data), d, fn)
    IN  /\ pc = [p \in Procs |-> IF p = 1 THEN where ELSE "off"]
        /\ job = [p \in Procs |-> IF p = 1 THEN j ELSE Idle]
        /\ config = GoodConfig
        /\ avatarDir = dir
        /\ fs = Installed \cup made
        /\ sel = [p \in Procs |-> IF p = 1 THEN picked ELSE NoSelection]
        /\ payload = [p \in Procs |->
                         IF p = 1 /\ built
                         THEN BuildInputPayload(j.data, picked, TRUE).payload
                         ELSE NoPayload]
        /\ err = [p \in Procs |-> "none"]
        /\ errText = [p \in Procs |-> <<>>]
        /\ spawned = [p \in Procs |-> p = 1 /\ running]
        /\ frame_num = [p \in Procs |-> IF p = 1 /\ running THEN fn ELSE 0]
        /\ max_frames_num = [p \in Procs |-> IF p = 1 /\ running THEN mx ELSE 0]
        /\ command = [p \in Procs |->
                         IF p = 1 /\ running
                         THEN FrameArgs(ModeOf(j.data), fn, mx) ELSE NoFrameArgs]
        /\ stream = [p \in Procs |-> IF p = 1 THEN s ELSE NoStream]
        /\ nread = [p \in Procs |-> 0]
        /\ tail = [p \in Procs |-> <<>>]
        /\ rmAttempted = [p \in Procs |-> FALSE]
        /\ rmFailed = [p \in Procs |-> FALSE]
        /\ writes = [p \in Procs |-> IF p = 1 THEN made ELSE {}]
        /\ deletes = [p \in Procs |-> {}]

\* one invocation of main()
Init ==
    /\ pc = [p \in Procs |-> IF p = 1 THEN "start" ELSE "off"]
    /\ \E d \in MainData :
        job = [p \in Procs |-> IF p = 1 THEN [id |-> <<"j1">>, data |-> d] ELSE Idle]
    /\ config \in Configs
    /\ avatarDir \in MainDirs
    /\ fs \in FsChoices
    /\ Fresh

Spec == Init /\ [][Next]_vars

-----------------------------------------------------------------------------
(* The frame budget alone: main() at the planning step, for every text *)

AllModes == {"absent", "clip", "streaming", "other"}

InitPlan ==
    \E t \in PlanSpeeches, m \in AllModes :
        Running("plan",
                [id |-> <<"j1">>,
                 data |-> [BaseData EXCEPT !.speech_text = t, !.mode = m]],
                GoodDir, NoStream)

NextPlan == Plan(1)

SpecPlan == InitPlan /\ [][NextPlan]_vars

-----------------------------------------------------------------------------
(* _select_avatar_assets alone: main() at that call, for every directory *)

InitAssets ==
    \E dir \in AllDirs :
        Running("avatar", [id |-> <<"j1">>, data |-> BaseData], dir, NoStream)

NextAssets == SelectAssets(1)

SpecAssets == InitAssets /\ [][NextAssets]_vars

-----------------------------------------------------------------------------
(* _run_command_streaming alone: after Popen, for long outputs *)

LineCounts == (0..SmallLines) \cup ((TailMax - 1)..(TailMax + Over))
TailStreams == Streams(LineCounts, LineKinds)

InitTail ==
    \E s \in TailStreams :
        Running("stream", [id |-> <<"j1">>, data |-> BaseData], GoodDir, s)

NextTail == ReadLine(1) \/ Wait(1)

SpecTail == InitTail /\ [][NextTail]_vars

-----------------------------------------------------------------------------
(* Two invocations of main() at the same time *)

\* pairs of distinct job ids: apart, and one inside the other
IdPairs ==
    {<< <<"j1">>, <<"j2">> >>,
     << <<"j1">>, <<"j1", "x">> >>,
     << <<"j1", "x">>, <<"j2">> >>}

\* neither working directory is the other's or lies inside it
Apart(a, b) == ~IsPrefix(a, b) /\ ~IsPrefix(b, a)

InitConc ==
    /\ pc = [p \in Procs |-> "start"]
    /\ \E ids \in IdPairs, u \in BOOLEAN, v \in BOOLEAN :
        job = [p \in Procs |->
                  [id |-> ids[p],
                   data |-> [BaseData EXCEPT !.projectAvatar = IF p = 1 THEN u ELSE v]]]
    /\ config = GoodConfig
    /\ avatarDir = GoodDir
    /\ fs \in FsChoices
    /\ Fresh

SpecConc == InitConc /\ [][Next]_vars

-----------------------------------------------------------------------------
(* Claims *)

\* the length of a non-empty speech_text string, 0 for anything else
TextLen(p) ==
    IF job[p].data.speech_text.kind = "str" THEN job[p].data.speech_text.len ELSE 0

\* the steps of main() after the payload was built
Built == {"write", "config", "kokoro", "symlink", "plan", "spawn", "stream", "cleanup"}

\* the exceptions main() can end with before the payload is written
SetupErrors ==
    {"json_unreadable", "download_failed", "avatar_dir_not_found",
     "avatar_files_missing", "speech_text_required"}

\* C1: when main() has finished and the generator had been spawned, rmtree
\* of the working directory was called, and unless that call itself failed
\* nothing of the working directory is left, after exit code zero and after
\* a nonzero exit code alike.
C1_WorkDirRemoved ==
    \A p \in Procs :
        (pc[p] = "done" /\ spawned[p]) =>
            /\ rmAttempted[p]
            /\ (~rmFailed[p] => Under(WorkDir(p), fs) = {})

\* a failed generation (nonzero exit code) after which the working directory
\* with the generator's audio directory is gone
C1_Witness ==
    /\ pc[1] = "done"
    /\ spawned[1]
    /\ err[1] = "generation_failed"
    /\ ~rmFailed[1]
    /\ AudioSaveDir(1) \in deletes[1]
    /\ WorkDir(1) \notin fs

\* C2: once the working directory exists, every run that ends with an
\* error has attempted to remove it, the errors before the generator is
\* spawned included.
C2_CleanupOnEveryError ==
    \A p \in Procs :
        (pc[p] = "done" /\ err[p] # "none") => rmAttempted[p]

\* C3: with a missing or empty speech_text, in either strategy, main() never
\* gets past the payload builders: the payload file is never written, the
\* generator never spawned, and main() ends with one of the errors raised
\* before the payload is written.
C3_EmptySpeechRejected ==
    \A p \in Procs :
        ~Truthy(job[p].data.speech_text) =>
            /\ pc[p] \notin Built
            /\ ~spawned[p]
            /\ InputJsonPath(p) \notin writes[p]
            /\ InputJsonPath(p) \notin fs
            /\ (pc[p] = "done" => err[p] \in SetupErrors)

\* the template strategy rejecting an empty string after the download
C3_Witness ==
    /\ pc[1] = "done"
    /\ job[1].data.projectAvatar
    /\ job[1].data.speech_text = Str(0)
    /\ AvatarFile(1) \in fs
    /\ err[1] = "speech_text_required"

\* C4: for every non-empty speech_text and every mode, the frame_num of the
\* command line is between 33 and 81 and is 1 modulo 4.
C4_FrameNumRange ==
    \A p \in Procs :
        (pc[p] = "spawn" /\ TextLen(p) >= 1) =>
            /\ 33 <= command[p].frame_num
            /\ command[p].frame_num <= 81
            /\ (command[p].frame_num - 1) % 4 = 0

\* a long text in clip mode, planned
C4_Witness ==
    /\ pc[1] = "spawn"
    /\ TextLen(1) = 150
    /\ job[1].data.mode = "clip"
    /\ command[1].frame_num = 81

\* the planner of the claim: floor(L / 15 * 25 * 0.9) = floor(3 L / 2),
\* clamped into [33, 81], rounded down to 1 modulo 4, not below 33
ClaimedFrameNum(L) ==
    LET target == (L * 25 * 9) \div (15 * 10)
        clamped == Max(33, Min(81, target))
        rounded == clamped - ((clamped - 1) % 4)
    IN  Max(33, rounded)

\* C5 as claimed: frame_num is the result of the planner above (45 for a
\* text of 30 characters).
C5_ClaimedPlanner ==
    \A p \in Procs :
        (pc[p] = "spawn" /\ TextLen(p) >= 1) =>
            command[p].frame_num = ClaimedFrameNum(TextLen(p))

\* C5 as amended: frame_num takes two values only, 33 for a text of at most
\* 48 characters (an estimated duration below 81 / 25 seconds) and 81 for a
\* longer one; 30 characters give 33 and 150 characters give 81.
C5_TwoFrameCounts ==
    \A p \in Procs :
        (pc[p] = "spawn" /\ TextLen(p) >= 1) =>
            /\ frame_num[p] = IF TextLen(p) <= 48 THEN 33 ELSE 81
            /\ command[p].frame_num = frame_num[p]
            /\ (TextLen(p) = 30 => frame_num[p] = 33)
            /\ (TextLen(p) = 150 => frame_num[p] = 81)

\* the text of 30 characters of the claim's example, planned with 33 frames
C5_Witness ==
    /\ pc[1] = "spawn"
    /\ TextLen(1) = 30
    /\ frame_num[1] = 33

\* the least integer that is 1 modulo 4 and at least x
LeastAbove4n1(x) == CHOOSE m \in x..(x + 3) : (m - 1) % 4 = 0

\* C6: in clip mode max_frames_num equals frame_num; in streaming mode it is
\* the least integer that is 1 modulo 4 and at least
\* max(frame_num, floor(L / 15 * 25)), hence at least frame_num.
C6_MaxFramesNum ==
    \A p \in Procs :
        (pc[p] = "spawn" /\ TextLen(p) >= 1) =>
            /\ ModeOf(job[p].data) = "clip" => max_frames_num[p] = frame_num[p]
            /\ ModeOf(job[p].data) = "streaming" =>
                /\ max_frames_num[p] =
                       LeastAbove4n1(Max(frame_num[p], (TextLen(p) * 25) \div 15))
                /\ max_frames_num[p] >= frame_num[p]
                /\ command[p].max_frames_num = max_frames_num[p]

\* line i of the generator's output as it was printed
Emitted(p, i) == StreamLine(stream[p], i)

\* the last min(n, 200) lines of the first n lines printed
LastLines(p, n) ==
    LET k == Min(n, TailMax)
    IN  [i \in 1..k |-> Emitted(p, n - k + i)]

\* a line without its newline, and without white space at its start or end
Body(line) == SubSeq(line, 1, Len(line) - 1)
IsBlank(line) == \A i \in 1..Len(line) : IsSpace(line[i])
TrimLeft(b) ==
    LET first == CHOOSE i \in 1..Len(b) : ~IsSpace(b[i]) /\ \A j \in 1..(i - 1) : IsSpace(b[j])
    IN  SubSeq(b, first, Len(b))
TrimRight(b) ==
    LET last == CHOOSE i \in 1..Len(b) : ~IsSpace(b[i]) /\ \A j \in (i + 1)..Len(b) : IsSpace(b[j])
    IN  SubSeq(b, 1, last)

\* the lines the failure message carries: the given lines from the first to
\* the last one that is not blank, the first without the white space at its
\* start, the last without the white space and the newline at its end
Carried(lines) ==
    IF \A i \in 1..Len(lines) : IsBlank(lines[i])
    THEN <<>>
    ELSE LET f == CHOOSE i \in 1..Len(lines) :
                      ~IsBlank(lines[i]) /\ \A j \in 1..(i - 1) : IsBlank(lines[j])
             l == CHOOSE i \in 1..Len(lines) :
                      ~IsBlank(lines[i]) /\ \A j \in (i + 1)..Len(lines) : IsBlank(lines[j])
         IN  [i \in 1..(l - f + 1) |->
                 IF f = l THEN TrimRight(TrimLeft(Body(lines[f])))
                 ELSE IF i = 1 THEN TrimLeft(lines[f])
                 ELSE IF i = l - f + 1 THEN TrimRight(Body(lines[l]))
                 ELSE lines[f + i - 1]]

\* the tail buffer holds the last min(n, 200) lines read, in order
TailIsLastLines ==
    \A p \in Procs :
        /\ Len(tail[p]) <= TailMax
        /\ tail[p] = LastLines(p, nread[p])

\* C7 as claimed: the failure message carries exactly the last min(n, 200)
\* lines printed, in order, none dropped or altered (the newline that ends
\* the last one aside), and the tail buffer never holds more than 200 lines.
C7_ExactLastLines ==
    /\ TailIsLastLines
    /\ \A p \in Procs :
        (pc[p] = "cleanup" /\ err[p] = "generation_failed") =>
            LET all == Join(LastLines(p, stream[p].n))
            IN  IF all = <<>> THEN errText[p] = <<>>
                ELSE errText[p] = SubSeq(all, 1, Len(all) - 1)

\* C7 as amended: the tail buffer holds the last min(n, 200) lines, never
\* more than 200, and the failure message carries them in order with the
\* white space at both ends of their concatenation stripped: blank lines at
\* its start and end are dropped, the first line left loses the white space
\* at its start and the last the white space at its end; every line between
\* is as printed.
C7_StrippedLastLines ==
    /\ TailIsLastLines
    /\ \A p \in Procs :
        (pc[p] = "cleanup" /\ err[p] = "generation_failed") =>
            errText[p] = Join(Carried(LastLines(p, stream[p].n)))

\* more than 200 lines printed, the oldest line kept being blank, and the
\* generator failed
C7_Witness ==
    /\ pc[1] = "cleanup"
    /\ err[1] = "generation_failed"
    /\ stream[1].n > TailMax
    /\ IsBlank(Emitted(1, stream[1].n - TailMax + 1))
    /\ ~IsBlank(Emitted(1, stream[1].n - TailMax + 2))
    /\ Len(tail[1]) = TailMax
    /\ errText[1] # <<>>

\* a job of the explicit-fields variant: no remote avatar URL and at least
\* one of avatar_path, kokoro_voice, video_prompt
ExplicitVariant(data) ==
    /\ ~data.projectAvatar
    /\ (data.avatar_path \/ data.kokoro_voice \/ data.video_prompt)

AllFourFields(data) ==
    /\ data.avatar_path
    /\ data.kokoro_voice
    /\ data.video_prompt
    /\ Truthy(data.speech_text)

\* C8 as claimed: for a job of the explicit-fields variant the payload is
\* built from the four fields (cond_image from avatar_path, human1_voice
\* from kokoro_voice), and a job that lacks one of the four never gets a
\* payload or a generator and ends with an error.
C8_ExplicitFieldsStrategy ==
    \A p \in Procs :
        ExplicitVariant(job[p].data) =>
            /\ pc[p] \in Built =>
                /\ AllFourFields(job[p].data)
                /\ payload[p].cond_image.from = "avatar_path"
                /\ payload[p].human1_voice = "kokoro_voice"
            /\ ~AllFourFields(job[p].data) =>
                /\ ~spawned[p]
                /\ (pc[p] = "done" => err[p] # "none")

\* the first name of a non-empty set of names in Python's string order
FirstName(names) == CHOOSE n \in names : \A m \in names \ {n} : LexLess(n, m)

\* a name with its case folded or as it is
Folded(name, anyCase) == IF anyCase THEN Lower(name) ELSE name

\* the names of the JSON files and of the image files (not directories) of a
\* directory, the extension compared with or without regard to case
JsonFiles(dir, anyCase) ==
    {x.name : x \in {y \in dir.entries : ~y.isdir /\ IsJsonName(Folded(y.name, anyCase))}}
ImageFiles(dir, anyCase) ==
    {x.name : x \in {y \in dir.entries : ~y.isdir /\ IsImageName(Folded(y.name, anyCase))}}

\* C8 as amended: a job without a remote avatar URL is built by the
\* directory-merge strategy whatever explicit fields it carries: cond_image
\* is the image selected in config.AVATAR_DIR, human1_voice comes from
\* tts_audio.human1_voice, else preferredVoice, else config.TTS_VOICE, the
\* text is speech_text, and speech_text is the only one of the four fields
\* whose absence is an error (raised before the generator is spawned).
C8_DirectoryMergeStrategy ==
    \A p \in Procs :
        ~job[p].data.projectAvatar =>
            /\ pc[p] \in Built =>
                /\ payload[p].cond_image =
                       [from |-> "AVATAR_DIR",
                        name |-> FirstName(ImageFiles(avatarDir, TRUE))]
                /\ payload[p].human1_voice =
                       (IF job[p].data.tts_human1 THEN "tts_audio.human1_voice"
                        ELSE IF job[p].data.preferredVoice THEN "preferredVoice"
                        ELSE "config.TTS_VOICE")
                /\ payload[p].text = job[p].data.speech_text
                /\ Truthy(job[p].data.speech_text)
            /\ err[p] = "speech_text_required" =>
                /\ ~Truthy(job[p].data.speech_text)
                /\ ~spawned[p]
            /\ (pc[p] = "merge" /\ Truthy(job[p].data.speech_text)) =>
                ENABLED (BuildPayload(p) /\ pc'[p] = "write")

\* a job with all of avatar_path, kokoro_voice and video_prompt whose
\* generator runs on a payload with the image of config.AVATAR_DIR
C8_Witness ==
    /\ pc[1] = "stream"
    /\ AllFourFields(job[1].data)
    /\ ~job[1].data.projectAvatar
    /\ payload[1].cond_image.from = "AVATAR_DIR"
    /\ payload[1].human1_voice = "config.TTS_VOICE"

\* what C9 says of a directory
SelectionBy(dir, anyCase) ==
    IF dir.kind # "dir" \/ JsonFiles(dir, anyCase) = {} \/ ImageFiles(dir, anyCase) = {}
    THEN [failed |-> TRUE, json |-> <<>>, image |-> <<>>]
    ELSE [failed |-> FALSE,
          json |-> FirstName(JsonFiles(dir, anyCase)),
          image |-> FirstName(ImageFiles(dir, anyCase))]

SelectionIs(p, want) ==
    /\ (sel[p].err # "none") = want.failed
    /\ sel[p].json = want.json
    /\ sel[p].image = want.image
    /\ (want.failed => pc[p] = "done" /\ err[p] = sel[p].err)

\* C9 as claimed: the selection is the first file in sorted order whose name
\* ends in .json and the first whose name ends in .png, .jpg, .jpeg or
\* .webp, and it fails when the directory does not exist or has no such
\* JSON or no such image file.
C9_FirstByExtension ==
    \A p \in Procs :
        (pc[p] \in {"merge", "done"}) =>
            SelectionIs(p, SelectionBy(avatarDir, FALSE))

\* C9 as amended: the same with the extensions compared without regard to
\* case (A.JSON is a JSON file, B.PNG an image); the order stays that of the
\* names as they are.
C9_FirstByExtensionAnyCase ==
    \A p \in Procs :
        (pc[p] \in {"merge", "done"}) =>
            SelectionIs(p, SelectionBy(avatarDir, TRUE))

\* two JSON files and one image besides a directory named like a JSON file:
\* the first JSON file in sorted order is selected
C9_Witness ==
    /\ pc[1] = "merge"
    /\ Cardinality(JsonFiles(avatarDir, TRUE)) = 2
    /\ Cardinality(ImageFiles(avatarDir, TRUE)) = 1
    /\ \E x \in avatarDir.entries : x.isdir
    /\ sel[1].json = FirstName(JsonFiles(avatarDir, TRUE))
    /\ sel[1].image # <<>>

\* what an invocation may create outside its working directory: the
\* directories above it (the run root backend_runs), the weights directory
\* and the Kokoro-82M link
SharedPaths(p) ==
    (Prefixes(WorkDir(p)) \ {WorkDir(p)}) \cup {WeightsDir, KokoroLink}

=============================================================================
